---------------------------- MODULE Spec2Model ----------------------------
(***************************************************************************)
(* A model of isoproxy: the configuration (config.py), the error taxonomy *)
(* (errors.py), the forwarding function (proxy.py) and the HTTP handlers   *)
(* (main.py).                                                              *)
(*                                                                         *)
(* Strings that the code slices are sequences of tokens, so that rstrip    *)
(* and lstrip do what they do to the text: "https://h//" is                *)
(* <<"https://h", "/", "/">>.                                              *)
(*                                                                         *)
(* main.py reads the settings config.passthrough, config.default_model,    *)
(* config.upstream_base and config.api_key, which config.py does not       *)
(* declare, and calls the forwarding function of proxy.py under the name   *)
(* forward_to_upstream.  The handlers are modelled as written: passthrough *)
(* and default_model are settings, upstream_base and api_key are the       *)
(* active provider's endpoint and credential, and the forwarding call is   *)
(* the function proxy.py defines, safe_forward_request.                    *)
(***************************************************************************)
EXTENDS Integers, Sequences, FiniteSets, Bags, TLC

VARIABLES
    settings,   \* the settings sources ProxyConfig() is built from
    phase,      \* "boot", "running" or "failed" (the process did not start)
    config,     \* the ProxyConfig object; NoConfig before and without one
    env,        \* the value of the credential's environment variable
    inflight,   \* the requests suspended at the upstream call
    last,       \* the exchange that completed last
    norm,       \* the last application of normalize_upstream_error
    pinned      \* an exchange that completed earlier, kept to compare with

vars == <<settings, phase, config, env, inflight, last, norm, pinned>>

(***************************** bounds **************************************)
\* how many requests may be suspended at their upstream call at once
MaxInFlight == 2

(***************************** text ****************************************)
\* str.rstrip("/")
RECURSIVE rstrip(_)
rstrip(s) ==
    IF Len(s) > 0 /\ s[Len(s)] = "/" THEN rstrip(SubSeq(s, 1, Len(s) - 1)) ELSE s

\* str.lstrip("/")
RECURSIVE lstrip(_)
lstrip(s) ==
    IF Len(s) > 0 /\ s[1] = "/" THEN lstrip(Tail(s)) ELSE s

(***************************** config.py ***********************************)
\* Field(ge=1024) of max_request_bytes
MinRequestBytes == 1024
\* Field(ge=1024) of max_response_bytes
MinResponseBytes == 1024
\* Field(ge=1, le=600) of timeout_seconds
MinTimeout == 1
MaxTimeout == 600
\* Field(ge=1, le=65535) of port
MinPort == 1
MaxPort == 65535

LoggingModes == {"off", "metadata", "debug"}

\* validate_provider: the active provider must be a key of providers
validate_provider_noop(v, providers) == TRUE
validate_provider(v, providers) == v \in DOMAIN providers

\* validate_logging_mode
validate_logging_mode(v) == v \in LoggingModes

\* the upper bound of timeout_seconds taken as exclusive
FieldBoundsOk_lt(s) ==
    /\ s.max_request_bytes >= MinRequestBytes
    /\ s.max_response_bytes >= MinResponseBytes
    /\ s.timeout_seconds >= MinTimeout /\ s.timeout_seconds < MaxTimeout
    /\ s.port >= MinPort /\ s.port <= MaxPort
\* the Field(ge=, le=) constraints of the numeric settings
FieldBoundsOk(s) ==
    /\ s.max_request_bytes >= MinRequestBytes
    /\ s.max_response_bytes >= MinResponseBytes
    /\ s.timeout_seconds >= MinTimeout /\ s.timeout_seconds <= MaxTimeout
    /\ s.port >= MinPort /\ s.port <= MaxPort

\* ProxyConfig(): does construction succeed on these settings
ProxyConfigOk(s) ==
    /\ FieldBoundsOk(s)
    /\ validate_provider(s.provider, s.providers)
    /\ validate_logging_mode(s.logging_mode)

NoConfig == [valid |-> FALSE]

\* the object ProxyConfig() returns: the settings, unchanged
ProxyConfig(s) == IF ProxyConfigOk(s) THEN s ELSE NoConfig

get_active_provider_config(c) == c.providers[c.provider]

\* get_upstream_endpoint: endpoint.rstrip("/") + "/v1/messages"
get_upstream_endpoint(c) ==
    rstrip(get_active_provider_config(c).endpoint) \o <<"/", "v1/messages">>

\* get_api_key: os.getenv(api_key_env), a ValueError when unset or empty
ApiKeyMissing(e) == e = ""
\* the key the process was started with, whatever the variable holds now
get_api_key_startup(e) == "sk-test-1"
get_api_key(e) == e


(***************************** errors.py ***********************************)
\* UPSTREAM_ERROR_MAP: upstream status code -> <<error_type, message>>
UPSTREAM_ERROR_MAP ==
    (400 :> <<"invalid_request", "The request was malformed or missing required parameters">>)
    @@ (401 :> <<"authentication_error", "Authentication failed">>)
    @@ (403 :> <<"permission_denied", "Access to the requested resource is forbidden">>)
    @@ (404 :> <<"not_found", "The requested resource was not found">>)
    @@ (429 :> <<"rate_limited", "Rate limit exceeded">>)
    @@ (500 :> <<"upstream_error", "The provider encountered an internal error">>)
    @@ (502 :> <<"upstream_error", "The provider is temporarily unavailable">>)
    @@ (503 :> <<"upstream_error", "The provider is temporarily unavailable">>)
    @@ (529 :> <<"upstream_error", "The provider is temporarily overloaded">>)

\* create_error_response
create_error_response(error_type, message) ==
    [type |-> "error", error |-> [type |-> error_type, message |-> message]]

\* normalize_upstream_error, its branches in the order of the code
normalize_upstream_error_generic(status_code) ==
    IF status_code >= 400 /\ status_code < 500
    THEN [status |-> status_code,
          body |-> create_error_response("client_error", "The request could not be processed")]
    ELSE [status |-> status_code,
          body |-> create_error_response("upstream_error", "The provider encountered an error")]
normalize_upstream_error_short_4xx(status_code) ==
    IF status_code \in DOMAIN UPSTREAM_ERROR_MAP
    THEN [status |-> status_code,
          body |-> create_error_response(UPSTREAM_ERROR_MAP[status_code][1],
                                         UPSTREAM_ERROR_MAP[status_code][2])]
    ELSE IF status_code >= 400 /\ status_code < 499
    THEN [status |-> status_code,
          body |-> create_error_response("client_error", "The request could not be processed")]
    ELSE [status |-> status_code,
          body |-> create_error_response("upstream_error", "The provider encountered an error")]
normalize_upstream_error(status_code) ==
    IF status_code \in DOMAIN UPSTREAM_ERROR_MAP
    THEN [status |-> status_code,
          body |-> create_error_response(UPSTREAM_ERROR_MAP[status_code][1],
                                         UPSTREAM_ERROR_MAP[status_code][2])]
    ELSE IF status_code >= 400 /\ status_code < 500
    THEN [status |-> status_code,
          body |-> create_error_response("client_error", "The request could not be processed")]
    ELSE IF status_code >= 500
    THEN [status |-> status_code,
          body |-> create_error_response("upstream_error", "The provider encountered an error")]
    ELSE [status |-> 502,
          body |-> create_error_response("upstream_error", "Unexpected provider response")]

\* what proxy_upstream_error_handler answers a ProxyUpstreamError with
proxy_upstream_error_handler ==
    [status |-> 502,
     body |-> create_error_response("proxy_error", "Upstream request failed")]

\* FastAPI's answer to an HTTPException(status_code, detail)
HTTPException(status_code, detail) ==
    [status |-> status_code, body |-> [detail |-> detail]]

(***************************** settings ************************************)
\* provider names are token sequences, so that lower() and the substring
\* test of safe_forward_request act on the text
Anthropic == <<"anthropic">>
AnthropicEU == <<"EU-", "Anthropic">>
Local == <<"local">>
OpenAI == <<"openai">>

\* the default of the providers field
DefaultProviders ==
    (Anthropic :> [endpoint |-> <<"https://api.anthropic.com">>,
                   api_key_env |-> "ANTHROPIC_API_KEY"])

\* a providers map as PROXY_PROVIDERS can set it
ConfiguredProviders ==
    (Anthropic :> [endpoint |-> <<"https://api.anthropic.com", "/", "/">>,
                   api_key_env |-> "ANTHROPIC_API_KEY"])
    @@ (Local :> [endpoint |-> <<"http://localhost:8080">>,
                  api_key_env |-> "LOCAL_API_KEY"])

\* default_model unset
NoModel == ""

\* every combination of settings around the declared bounds
AllSettings ==
    [providers : {DefaultProviders, ConfiguredProviders},
     provider : {Anthropic, Local, OpenAI},
     max_request_bytes : {MinRequestBytes - 1, MinRequestBytes, MinRequestBytes + 1},
     max_response_bytes : {MinResponseBytes - 1, MinResponseBytes},
     timeout_seconds : {MinTimeout - 1, MinTimeout, MaxTimeout, MaxTimeout + 1},
     port : {MinPort - 1, MinPort, MaxPort, MaxPort + 1},
     logging_mode : {"off", "metadata", "debug", "verbose"},
     passthrough : BOOLEAN,
     default_model : {NoModel}]

\* the settings the request pipeline is run under: both providers, the
\* three logging modes, both modes of main.py, with and without a default
\* model, and one configuration whose provider is not in the map
RunSetting(provider, logging_mode, passthrough, default_model) ==
    [providers |-> ConfiguredProviders, provider |-> provider,
     max_request_bytes |-> MinRequestBytes, max_response_bytes |-> MinResponseBytes,
     timeout_seconds |-> 30, port |-> 9000, logging_mode |-> logging_mode,
     passthrough |-> passthrough, default_model |-> default_model]
RunSettings ==
    {RunSetting(Anthropic, "debug", FALSE, NoModel),
     RunSetting(Anthropic, "debug", TRUE, NoModel),
     RunSetting(Local, "off", FALSE, "model-override"),
     RunSetting(Local, "metadata", FALSE, NoModel),
     RunSetting(OpenAI, "metadata", FALSE, NoModel)}

\* the values the credential's environment variable takes; "" is unset
Credentials == {"", "sk-test-1"}
\* the same with a second key, for the runs in which the key is rotated
RotatedCredentials == Credentials \cup {"sk-test-2"}

(***************************** requests ************************************)
MessagesPath == <<"/", "v1/messages">>
OtherPath == <<"/", "v1/completions">>
RootPath == <<"/">>

\* the methods of the route messages_method_not_allowed
NotAllowedMethods == {"GET", "PUT", "DELETE", "PATCH", "HEAD", "OPTIONS"}
\* the methods of the route catch_all
CatchAllMethods == {"GET", "POST", "PUT", "DELETE", "PATCH", "HEAD", "OPTIONS"}

\* JSON objects are records; these are the inbound payloads
NoPayload == [none |-> TRUE]
PayloadOk == [model |-> "claude-3", messages |-> 1, max_tokens |-> 1024]
PayloadStream == [model |-> "claude-3", messages |-> 1, max_tokens |-> 1024, stream |-> TRUE]
PayloadNoMessages == [model |-> "claude-3", max_tokens |-> 1024]
\* JSON null in the place of a string
Null == "null"
PayloadExtra ==
    [model |-> "claude-3", messages |-> 1, max_tokens |-> 1024, thinking |-> "on",
     system |-> Null]

\* a request body: its length in bytes, whether it decodes and parses
\* ("json"), decodes but does not parse ("badjson") or does not decode
\* ("badutf8"), and the JSON value it parses to
Body(len, enc, val) == [len |-> len, enc |-> enc, val |-> val]
EmptyBody == Body(0, "badjson", NoPayload)
Bodies ==
    {Body(100, "json", PayloadOk),
     Body(MinRequestBytes, "json", PayloadExtra),
     Body(MinRequestBytes + 1, "json", PayloadOk),
     Body(2 * MinRequestBytes, "badjson", NoPayload),
     Body(100, "badjson", NoPayload),
     Body(100, "badutf8", NoPayload),
     Body(100, "json", PayloadStream),
     Body(100, "json", PayloadNoMessages)}

\* a request: method, path, the Content-Type header ("" when absent), body
Request(method, path, ctype, body) ==
    [method |-> method, path |-> path, ctype |-> ctype, body |-> body]
Requests ==
    {Request("POST", MessagesPath, "application/json", b) : b \in Bodies}
    \cup {Request("GET", MessagesPath, "", EmptyBody)}
    \cup {Request("GET", p, "", EmptyBody) : p \in {OtherPath, RootPath}}
    \cup {Request("POST", OtherPath, "application/json", Body(100, "json", PayloadOk)),
          Request("POST", OtherPath, "text/plain",
                  Body(2 * MinRequestBytes, "badjson", NoPayload))}

(***************************** the upstream ********************************)
\* an upstream response: status, size of the body in bytes, the body's
\* text, whether response.json() reads the text and the value it gives, and
\* whether the Content-Type header starts with application/json
NotJson == [notjson |-> TRUE]
Response(status, size, text, isjson, json, ctjson) ==
    [kind |-> "response", status |-> status, size |-> size, text |-> text,
     isjson |-> isjson, json |-> json, ctjson |-> ctjson]
Failure(kind) ==
    [kind |-> kind, status |-> 0, size |-> 0, text |-> "", isjson |-> FALSE,
     json |-> NotJson, ctjson |-> FALSE]
NoOutcome == Failure("none")

MessageBody == [id |-> "msg_1", content |-> "hello"]
RateLimitBody ==
    [type |-> "error",
     error |-> [type |-> "rate_limit_error",
                message |-> "Rate limit: 50 requests per minute, retry after 30s"]]
ApiErrorBody ==
    [type |-> "error",
     error |-> [type |-> "api_error", message |-> "Internal server error details"]]
\* the float nan: response.json() reads it from the literal NaN, which is
\* no JSON, and json.dumps(allow_nan=False) refuses to write it
NaN == "NaN"
NanBody == [id |-> "msg_1", score |-> NaN]

UpstreamOutcomes ==
    {Response(200, MinResponseBytes, "msg_1", TRUE, MessageBody, TRUE),
     Response(200, 100, "msg_1", TRUE, MessageBody, FALSE),
     Response(200, MinResponseBytes + 1, "msg_1", TRUE, MessageBody, TRUE),
     Response(200, 100, "<html>", FALSE, NotJson, FALSE),
     Response(200, 100, "msg_nan", TRUE, NanBody, TRUE),
     Response(429, 100, "rate_limit", TRUE, RateLimitBody, TRUE),
     Response(500, 100, "api_error", TRUE, ApiErrorBody, TRUE),
     Failure("timeout"), Failure("network"), Failure("unexpected")}

(***************************** models.py, validation.py *********************)
RequiredFields == {"model", "messages", "max_tokens"}
KnownFields ==
    RequiredFields
    \cup {"metadata", "stop_sequences", "stream", "system", "temperature", "top_k", "top_p"}

\* MessagesRequest.model_validate: the required fields, min_length=1 of
\* messages, ge=1 of max_tokens, and validate_no_streaming
model_validate(p) ==
    /\ RequiredFields \subseteq DOMAIN p
    /\ p.messages >= 1
    /\ p.max_tokens >= 1
    /\ ("stream" \in DOMAIN p => ~p.stream)

\* apply_model_override
apply_model_override(model, c) ==
    IF c.default_model # NoModel THEN c.default_model ELSE model

\* the declared fields whose value may be None (models.py, "| None")
NullableFields == {"metadata", "stop_sequences", "system", "temperature", "top_k", "top_p"}

\* prepare_request_payload: model_dump(exclude_none=True) of the validated
\* request keeps the declared fields that are set, and stream's default
prepare_request_payload(p, c) ==
    [f \in {g \in DOMAIN p \cap KnownFields : g \in NullableFields => p[g] # Null}
           \cup {"stream"} |->
        IF f = "model" THEN apply_model_override(p.model, c)
        ELSE IF f = "stream" THEN FALSE
        ELSE p[f]]

(***************************** logging *************************************)
\* a log call: where it is, its level, and the values formatted into it
Log(at, level, data) == [at |-> at, level |-> level, data |-> data]
Toks(s) == {s[i] : i \in DOMAIN s}

(***************************** proxy.py ************************************)
\* str.lower() on the tokens of the provider names
Lower(tok) ==
    CASE tok = "Anthropic" -> "anthropic"
      [] tok = "EU-" -> "eu-"
      [] OTHER -> tok

\* "anthropic" in config.provider.lower()
IsAnthropic(provider) == \E i \in DOMAIN provider : Lower(provider[i]) = "anthropic"

\* the headers safe_forward_request builds
ForwardHeaders(c, api_key) ==
    LET base == ("Content-Type" :> <<"application/json">>)
                @@ ("Authorization" :> <<"Bearer", api_key>>)
    IN IF IsAnthropic(c.provider)
       THEN base @@ ("anthropic-version" :> <<"2023-06-01">>)
       ELSE base

\* an upstream call: client.post(url, json=payload, headers=headers), or
\* client.request(method, url, headers, content=raw_body) with raw = TRUE;
\* nth counts the calls made for the request: it is the first
Call(method, url, headers, payload, raw) ==
    [method |-> method, url |-> url, headers |-> headers, payload |-> payload, raw |-> raw,
     nth |-> 1]
NoCall == [Call("none", <<>>, <<>>, NoPayload, FALSE) EXCEPT !.nth = 0]

\* the log calls of safe_forward_request before the upstream call
ForwardLogsHeaderValues(c, headers) ==
    IF c.logging_mode \in {"metadata", "debug"}
    THEN {Log("proxy.py:63", "info", Toks(c.provider))}
         \cup IF c.logging_mode = "debug"
              THEN {Log("proxy.py:65", "debug",
                        UNION {Toks(headers[h]) : h \in DOMAIN headers})}
              ELSE {}
    ELSE {}
ForwardLogs(c, headers) ==
    IF c.logging_mode \in {"metadata", "debug"}
    THEN {Log("proxy.py:63", "info", Toks(c.provider))}
         \cup IF c.logging_mode = "debug"
              THEN {Log("proxy.py:65", "debug", DOMAIN headers)}
              ELSE {}
    ELSE {}

\* what safe_forward_request gives its caller: a (status, body) pair, or a
\* ProxyUpstreamError with a message; and the log calls made on the way
Returned(status, body, logs) ==
    [raised |-> "none", error |-> "", status |-> status, body |-> body, logs |-> logs]
Raised(exc, error, logs) ==
    [raised |-> exc, error |-> error, status |-> 0, body |-> NotJson, logs |-> logs]

\* the body put in the place of a response that is not JSON
NonJsonBody ==
    [error |-> [type |-> "proxy_error", message |-> "Non-JSON response from provider"]]

\* the substitute in the place of every body
ForwardedBodySubstituted(out) == NonJsonBody
\* a body kept from the response before, as a cache shared by the requests
ForwardedBodyCached(out) ==
    IF last.done /\ last.raised = "none" /\ last.handler = "messages"
    THEN last.body
    ELSE IF out.isjson THEN out.json ELSE NonJsonBody
\* response.json(), or the substitute when it raises JSONDecodeError
ForwardedBody(out) == IF out.isjson THEN out.json ELSE NonJsonBody

\* safe_forward_request when get_api_key raises: the ValueError is caught
\* by "except Exception"
safe_forward_request_no_key(c) ==
    Raised("ProxyUpstreamError", "Unexpected error: ValueError",
           {Log("proxy.py:111", "error", {"ValueError", "API key not found", 
                                          get_active_provider_config(c).api_key_env})})

\* safe_forward_request from the upstream's answer on
safe_forward_request_after(c, out) ==
    CASE out.kind = "timeout" ->
           Raised("ProxyUpstreamError", "Request timed out",
                  {Log("proxy.py:103", "error", {ToString(c.timeout_seconds)})})
      [] out.kind = "network" ->
           Raised("ProxyUpstreamError", "Network error: ConnectError",
                  {Log("proxy.py:107", "error", {"ConnectError"})})
      [] out.kind = "unexpected" ->
           Raised("ProxyUpstreamError", "Unexpected error: RuntimeError",
                  {Log("proxy.py:111", "error", {"RuntimeError", "exception text"})})
      [] out.kind = "response" ->
           IF out.size > c.max_response_bytes
           THEN \* the ProxyUpstreamError of line 84 is caught by "except Exception"
                Raised("ProxyUpstreamError", "Unexpected error: ProxyUpstreamError",
                       {Log("proxy.py:111", "error",
                            {"ProxyUpstreamError", "Response too large",
                             ToString(out.size), ToString(c.max_response_bytes)})})
           ELSE Returned(out.status, ForwardedBody(out),
                         IF c.logging_mode \in {"metadata", "debug"}
                         THEN {Log("proxy.py:90", "info",
                                   {ToString(out.status), ToString(out.size)})}
                         ELSE {})

\* validate_request_size: does it raise
validate_request_size(body, c) == body.len > c.max_request_bytes

\* parse_request_safely: does it raise
parse_request_safely(body) == body.enc # "json"

(***************************** main.py *************************************)
\* a completed exchange: the handler that ran, the request, the upstream
\* call made for it (NoCall when none), what the upstream did, the exception
\* that left the handler, the response, and the log calls made
Exchange(handler, req, call, outcome, raised, error, status, body, logs) ==
    [done |-> TRUE, handler |-> handler, req |-> req, call |-> call,
     outcome |-> outcome, raised |-> raised, error |-> error,
     status |-> status, body |-> body, logs |-> logs]
NoExchange ==
    [done |-> FALSE, handler |-> "none",
     req |-> Request("none", <<>>, "", EmptyBody), call |-> NoCall,
     outcome |-> NoOutcome, raised |-> "none", error |-> "",
     status |-> 0, body |-> NotJson, logs |-> {}]

\* a handler suspended at its upstream call
Pending(handler, req, call, logs) ==
    [handler |-> handler, req |-> req, call |-> call, logs |-> logs]

\* messages with the validating branch taken in both modes
messages_ingress_always_prepared(req, c) ==
    IF req.body.enc # "json"
    THEN [ok |-> FALSE, status |-> 400, detail |-> "Invalid JSON", payload |-> NoPayload]
    ELSE IF ~c.passthrough /\ ~model_validate(req.body.val)
    THEN [ok |-> FALSE, status |-> 422, detail |-> "validation error",
          payload |-> NoPayload]
    ELSE [ok |-> TRUE, status |-> 0, detail |-> "",
          payload |-> prepare_request_payload(req.body.val, c)]
\* the body of "try" in messages up to the forwarding call: the payload, or
\* the HTTPException raised (400 for a body that does not decode or parse,
\* 422 for one that fails MessagesRequest)
messages_ingress(req, c) ==
    IF req.body.enc # "json"
    THEN [ok |-> FALSE, status |-> 400, detail |-> "Invalid JSON", payload |-> NoPayload]
    ELSE IF c.passthrough
    THEN [ok |-> TRUE, status |-> 0, detail |-> "", payload |-> req.body.val]
    ELSE IF ~model_validate(req.body.val)
    THEN [ok |-> FALSE, status |-> 422, detail |-> "validation error",
          payload |-> NoPayload]
    ELSE [ok |-> TRUE, status |-> 0, detail |-> "",
          payload |-> prepare_request_payload(req.body.val, c)]

\* "except Exception" of messages: whatever is raised inside "try" and is no
\* ProxyUpstreamError, the HTTPExceptions of the ingress included, is logged
\* and answered with HTTPException(500)
messages_except(req, status, detail) ==
    LET r == HTTPException(500, "Internal server error")
    IN Exchange("messages", req, NoCall, NoOutcome, "HTTPException",
                "Internal server error", r.status, r.body,
                {Log("main.py:101", "error", {"HTTPException", ToString(status), detail})})

\* a ProxyUpstreamError leaves messages and reaches proxy_upstream_error_handler
messages_upstream_error(req, call, outcome, f) ==
    Exchange("messages", req, call, outcome, f.raised, f.error,
             proxy_upstream_error_handler.status, proxy_upstream_error_handler.body,
             f.logs \cup {Log("errors.py:97", "error", {f.error})})

\* JSONResponse(content=...): does rendering raise ValueError (a nan among
\* the values of the content)
JSONResponse_raises(content) ==
    \E f \in DOMAIN content \ {"error"} : content[f] = NaN

\* the exception's text in the place of the fixed detail
messages_except_render_detail(x, outcome, logs) ==
    LET r == HTTPException(500, "Out of range float values are not JSON compliant")
    IN Exchange("messages", x.req, x.call, outcome, "HTTPException",
                "Internal server error", r.status, r.body,
                logs \cup {Log("main.py:101", "error",
                               {"ValueError",
                                "Out of range float values are not JSON compliant"})})
\* "except Exception" of messages entered from the JSONResponse of line 90
messages_except_render(x, outcome, logs) ==
    LET r == HTTPException(500, "Internal server error")
    IN Exchange("messages", x.req, x.call, outcome, "HTTPException",
                "Internal server error", r.status, r.body,
                logs \cup {Log("main.py:101", "error",
                               {"ValueError",
                                "Out of range float values are not JSON compliant"})})

\* config.upstream_base as main.py reads it: the endpoint of the active
\* provider without trailing slashes
upstream_base(c) == rstrip(get_active_provider_config(c).endpoint)

\* config.api_key as main.py reads it: the credential, read from its source
\* when it is used
config_api_key(e) == e

\* the call catch_all makes in passthrough mode
catch_all_call(req, c, api_key) ==
    Call(req.method,
         upstream_base(c) \o <<"/">> \o lstrip(Tail(req.path)),
         ("Authorization" :> <<"Bearer", api_key>>)
         @@ ("Content-Type" :> <<IF req.ctype = "" THEN "application/json" ELSE req.ctype>>),
         req.body, TRUE)

\* "except Exception" of catch_all
catch_all_except(req, call, outcome) ==
    LET r == HTTPException(502, "Bad gateway")
    IN Exchange("catch_all", req, call, outcome, "HTTPException", "Bad gateway",
                r.status, r.body, {Log("main.py:157", "error", {"exception text"})})

(***************************** the state machine ***************************)
TypeOK ==
    /\ phase \in {"boot", "running", "failed"}
    /\ env \in Credentials
    /\ BagCardinality(inflight) <= MaxInFlight
    /\ last.done \in BOOLEAN

Init ==
    /\ settings \in RunSettings
    /\ phase = "boot"
    /\ config = NoConfig
    /\ env \in Credentials
    /\ inflight = EmptyBag
    /\ last = NoExchange
    /\ norm = [status |-> 0, upstream |-> NotJson, out |-> [status |-> 0, body |-> NotJson]]
    /\ pinned = NoExchange

\* main.py, "config = ProxyConfig()": a failure ends the process
Startup ==
    /\ phase = "boot"
    /\ config' = ProxyConfig(settings)
    /\ phase' = IF ProxyConfigOk(settings) THEN "running" ELSE "failed"
    /\ UNCHANGED <<settings, env, inflight, last, norm, pinned>>

\* the environment variable of the credential is set, changed or unset
SetCredential(v) ==
    /\ phase = "running"
    /\ v # env
    /\ env' = v
    /\ UNCHANGED <<settings, phase, config, inflight, last, norm, pinned>>

\* POST /v1/messages, up to the upstream call of safe_forward_request
messages(req) ==
    /\ phase = "running"
    /\ req.method = "POST" /\ req.path = MessagesPath
    /\ LET ing == messages_ingress(req, config)
           headers == ForwardHeaders(config, get_api_key(env))
           call == Call("POST", get_upstream_endpoint(config), headers, ing.payload, FALSE)
       IN IF ~ing.ok
          THEN /\ last' = messages_except(req, ing.status, ing.detail)
               /\ UNCHANGED inflight
          ELSE IF ApiKeyMissing(env)
          THEN /\ last' = messages_upstream_error(req, NoCall, NoOutcome,
                                                  safe_forward_request_no_key(config))
               /\ UNCHANGED inflight
          ELSE /\ BagCardinality(inflight) < MaxInFlight
               /\ inflight' = inflight (+) SetToBag({Pending("messages", req, call,
                                                             ForwardLogs(config, headers))})
               /\ UNCHANGED last
    /\ UNCHANGED <<settings, phase, config, env, norm, pinned>>

\* the same with the request sent once more after a first timeout
messages_resume_retry(x, out) ==
    /\ x \in BagToSet(inflight)
    /\ x.handler = "messages"
    /\ IF out.kind = "timeout" /\ x.call.nth = 1
       THEN /\ inflight' = (inflight (-) SetToBag({x}))
                               (+) SetToBag({[x EXCEPT !.call.nth = 2]})
            /\ UNCHANGED last
       ELSE /\ inflight' = inflight (-) SetToBag({x})
            /\ LET f == safe_forward_request_after(config, out)
               IN last' = IF f.raised = "none"
                          THEN Exchange("messages", x.req, x.call, out, "none", "",
                                        f.status, f.body, x.logs \cup f.logs)
                          ELSE messages_upstream_error(x.req, x.call, out,
                                                       [f EXCEPT !.logs = x.logs \cup f.logs])
    /\ UNCHANGED <<settings, phase, config, env, norm, pinned>>

\* the upstream call of a suspended messages handler ends: the rest of
\* safe_forward_request and of messages
messages_resume(x, out) ==
    /\ x \in BagToSet(inflight)
    /\ x.handler = "messages"
    /\ inflight' = inflight (-) SetToBag({x})
    /\ LET f == safe_forward_request_after(config, out)
       IN last' = IF f.raised = "none"
                  THEN IF JSONResponse_raises(f.body)
                       THEN messages_except_render(x, out, x.logs \cup f.logs)
                       ELSE Exchange("messages", x.req, x.call, out, "none", "",
                                     f.status, f.body, x.logs \cup f.logs)
                  ELSE messages_upstream_error(x.req, x.call, out,
                                               [f EXCEPT !.logs = x.logs \cup f.logs])
    /\ UNCHANGED <<settings, phase, config, env, norm, pinned>>

\* any other method on /v1/messages
messages_method_not_allowed(req) ==
    /\ phase = "running"
    /\ req.path = MessagesPath /\ req.method \in NotAllowedMethods
    /\ LET r == HTTPException(405, "Method not allowed")
       IN last' = Exchange("messages_method_not_allowed", req, NoCall, NoOutcome,
                           "HTTPException", "Method not allowed", r.status, r.body, {})
    /\ UNCHANGED <<settings, phase, config, env, inflight, norm, pinned>>

\* every other path: 404, or in passthrough mode the call to the upstream
catch_all(req) ==
    /\ phase = "running"
    /\ req.path # MessagesPath /\ req.method \in CatchAllMethods
    /\ IF config.passthrough
       THEN /\ BagCardinality(inflight) < MaxInFlight
            /\ inflight' = inflight (+) SetToBag({Pending("catch_all", req,
                                                          catch_all_call(req, config, config_api_key(env)),
                                                          {})})
            /\ UNCHANGED last
       ELSE /\ LET r == HTTPException(404, "Not found")
               IN last' = Exchange("catch_all", req, NoCall, NoOutcome,
                                   "HTTPException", "Not found", r.status, r.body, {})
            /\ UNCHANGED inflight
    /\ UNCHANGED <<settings, phase, config, env, norm, pinned>>

\* the upstream call of a suspended catch_all ends
catch_all_resume(x, out) ==
    /\ x \in BagToSet(inflight)
    /\ x.handler = "catch_all"
    /\ inflight' = inflight (-) SetToBag({x})
    /\ last' = IF \/ out.kind # "response"
                  \/ out.ctjson /\ ~out.isjson
                  \/ out.ctjson /\ out.isjson /\ JSONResponse_raises(out.json)
               THEN catch_all_except(x.req, x.call, out)
               ELSE Exchange("catch_all", x.req, x.call, out, "none", "", out.status,
                             IF out.ctjson THEN out.json ELSE [jsonstring |-> out.text],
                             x.logs)
    /\ UNCHANGED <<settings, phase, config, env, norm, pinned>>

Next ==
    \/ Startup
    \/ \E v \in Credentials : SetCredential(v)
    \/ \E req \in Requests : messages(req)
    \/ \E req \in Requests : messages_method_not_allowed(req)
    \/ \E req \in Requests : catch_all(req)
    \/ \E x \in BagToSet(inflight), out \in UpstreamOutcomes : messages_resume(x, out)
    \/ \E x \in BagToSet(inflight), out \in UpstreamOutcomes : catch_all_resume(x, out)

Spec == Init /\ [][Next]_vars

(***************************** configuration alone *************************)
InitConfig ==
    /\ settings \in AllSettings
    /\ phase = "boot"
    /\ config = NoConfig
    /\ env = "sk-test-1"
    /\ inflight = EmptyBag
    /\ last = NoExchange
    /\ norm = [status |-> 0, upstream |-> NotJson, out |-> [status |-> 0, body |-> NotJson]]
    /\ pinned = NoExchange

NextConfig == Startup

SpecConfig == InitConfig /\ [][NextConfig]_vars

(***************************** the taxonomy alone **************************)
\* the largest status code normalize_upstream_error is applied to
MaxStatus == 600
Statuses == 200..MaxStatus
UpstreamBodies == {MessageBody, RateLimitBody, ApiErrorBody}

InitNormalize ==
    /\ settings = RunSetting(Anthropic, "debug", FALSE, NoModel)
    /\ phase = "running"
    /\ config = settings
    /\ env = "sk-test-1"
    /\ inflight = EmptyBag
    /\ last = NoExchange
    /\ norm = [status |-> 0, upstream |-> NotJson, out |-> [status |-> 0, body |-> NotJson]]
    /\ pinned = NoExchange

\* normalize_upstream_error applied to the status of an upstream response
Normalize(status, upstream) ==
    /\ norm' = [status |-> status, upstream |-> upstream,
                out |-> normalize_upstream_error(status)]
    /\ UNCHANGED <<settings, phase, config, env, inflight, last, pinned>>

NextNormalize == \E status \in Statuses, upstream \in UpstreamBodies : Normalize(status, upstream)

SpecNormalize == InitNormalize /\ [][NextNormalize]_vars

(***************************** requests side by side ***********************)
\* the requests and upstream answers of the runs that compare exchanges
IsolationSettings ==
    {RunSetting(Anthropic, "debug", FALSE, NoModel),
     RunSetting(Anthropic, "debug", TRUE, NoModel)}
IsolationRequests ==
    {Request("POST", MessagesPath, "application/json", Body(100, "json", PayloadOk)),
     Request("POST", MessagesPath, "application/json", Body(100, "badjson", NoPayload)),
     Request("POST", OtherPath, "application/json", Body(100, "json", PayloadOk))}
IsolationOutcomes ==
    {Response(200, 100, "msg_1", TRUE, MessageBody, FALSE),
     Response(200, 100, "<html>", FALSE, NotJson, FALSE),
     Response(429, 100, "rate_limit", TRUE, RateLimitBody, TRUE),
     Failure("timeout")}

InitIsolation ==
    /\ settings \in IsolationSettings
    /\ phase = "boot"
    /\ config = NoConfig
    /\ env \in RotatedCredentials
    /\ inflight = EmptyBag
    /\ last = NoExchange
    /\ norm = [status |-> 0, upstream |-> NotJson, out |-> [status |-> 0, body |-> NotJson]]
    /\ pinned = NoExchange

\* the exchange that just completed is kept, once
Pin ==
    /\ last.done /\ ~pinned.done
    /\ pinned' = last
    /\ UNCHANGED <<settings, phase, config, env, inflight, last, norm>>

NextIsolation ==
    \/ Startup
    \/ \E v \in RotatedCredentials : SetCredential(v)
    \/ \E req \in IsolationRequests : messages(req)
    \/ \E req \in IsolationRequests : catch_all(req)
    \/ \E x \in BagToSet(inflight), out \in IsolationOutcomes : messages_resume(x, out)
    \/ \E x \in BagToSet(inflight), out \in IsolationOutcomes : catch_all_resume(x, out)
    \/ Pin

SpecIsolation == InitIsolation /\ [][NextIsolation]_vars

(***************************** properties **********************************)
\* the exchanges the state holds: the completed one and the suspended ones
Calls == {x.call : x \in BagToSet(inflight)} \cup (IF last.call # NoCall THEN {last.call} ELSE {})
Forwarded == {x.req : x \in BagToSet(inflight)} \cup (IF last.call # NoCall THEN {last.req} ELSE {})
Is2xx(status) == status >= 200 /\ status <= 299

\* the body of the response is JSON: response.json() reads it and it holds
\* no NaN literal
StrictJson(out) == out.isjson /\ out.json # NanBody

\* the strings of a response body
BodyStrings(b) ==
    UNION {IF f = "error" THEN {b.error.type, b.error.message} ELSE {b[f]} : f \in DOMAIN b}

\* C1: when the active provider is not a key of the providers map,
\* constructing the configuration fails: the process does not start and
\* holds no configuration, whatever the other settings are.
C1_UnknownProviderFails ==
    (phase # "boot" /\ settings.provider \notin DOMAIN settings.providers)
        => (phase = "failed" /\ config = NoConfig)

\* C1 witness: construction failed on settings whose only fault is the provider
C1_Witness ==
    /\ phase = "failed"
    /\ settings.provider \notin DOMAIN settings.providers
    /\ FieldBoundsOk(settings)
    /\ validate_logging_mode(settings.logging_mode)

\* C2: a POST to /v1/messages whose body is longer than max_request_bytes
\* is rejected with the request-too-large error (the ProxyUpstreamError of
\* validate_request_size) and nothing else is done with the body.
C2_OversizedRejectedBySize ==
    (/\ last.done
     /\ last.req.method = "POST" /\ last.req.path = MessagesPath
     /\ validate_request_size(last.req.body, config))
        => (/\ last.raised = "ProxyUpstreamError"
            /\ last.error = "Request too large"
            /\ last.call = NoCall)

\* C3: an upstream call is made only for a POST to /v1/messages whose body
\* passed the size check and parsed as JSON.
C3_CallsOnlyAfterIngress ==
    \A req \in Forwarded :
        /\ req.method = "POST" /\ req.path = MessagesPath
        /\ ~validate_request_size(req.body, config)
        /\ ~parse_request_safely(req.body)

\* C4: every upstream call is a POST to the active provider's endpoint
\* without its trailing slashes, followed by /v1/messages.
C4_CallsOnlyTheEndpoint ==
    \A call \in Calls :
        /\ call.method = "POST"
        /\ call.url = rstrip(config.providers[config.provider].endpoint) \o <<"/", "v1/messages">>

\* C5: a request to /v1/messages with another method than POST is answered
\* 405, a request to any other path is answered 404, and no request to
\* another path reaches the upstream.
C5_ClosedAllowlist ==
    /\ \A req \in Forwarded : req.path = MessagesPath
    /\ last.done =>
        /\ (last.req.path = MessagesPath /\ last.req.method # "POST") => last.status = 405
        /\ last.req.path # MessagesPath => last.status = 404

ForwardingFailed(x) ==
    /\ x.call # NoCall
    /\ \/ x.outcome.kind \in {"timeout", "network", "unexpected"}
       \/ x.outcome.kind = "response" /\ x.outcome.size > config.max_response_bytes
C7_FailuresAre502ProxyError ==
    (last.done /\ ForwardingFailed(last))
        => (/\ last.raised = "ProxyUpstreamError"
            /\ last.status = 502
            /\ last.body = [type |-> "error",
                            error |-> [type |-> "proxy_error",
                                       message |-> "Upstream request failed"]])

C9_ErrorsNormalized ==
    (/\ last.done /\ last.handler = "messages" /\ last.call # NoCall
     /\ last.outcome.kind = "response"
     /\ ~Is2xx(last.outcome.status)
     /\ last.outcome.size <= config.max_response_bytes)
        => (/\ last.status = last.outcome.status
            /\ last.body = normalize_upstream_error(last.outcome.status).body)

\* the (kind, message) pairs as the tests of the repository expect them
\* (tests/test_proxy.py)
TaxonomyTable ==
    (400 :> <<"invalid_request", "The request was malformed or missing required parameters">>)
    @@ (401 :> <<"authentication_error", "Authentication failed">>)
    @@ (403 :> <<"permission_denied", "Access to the requested resource is forbidden">>)
    @@ (404 :> <<"not_found", "The requested resource was not found">>)
    @@ (429 :> <<"rate_limited", "Rate limit exceeded">>)
    @@ (500 :> <<"upstream_error", "The provider encountered an internal error">>)
    @@ (502 :> <<"upstream_error", "The provider is temporarily unavailable">>)
    @@ (503 :> <<"upstream_error", "The provider is temporarily unavailable">>)
    @@ (529 :> <<"upstream_error", "The provider is temporarily overloaded">>)

\* C10: for each of the nine status codes of the table the normalized
\* result is that status code with the entry's (kind, message) pair in the
\* error envelope, whatever the upstream body was.
C10_TableEntriesFixed ==
    norm.status \in {400, 401, 403, 404, 429, 500, 502, 503, 529}
        => norm.out = [status |-> norm.status,
                       body |-> [type |-> "error",
                                 error |-> [type |-> TaxonomyTable[norm.status][1],
                                            message |-> TaxonomyTable[norm.status][2]]]]

\* C10 witness: a 429 whose upstream body carried rate-limit details was
\* normalized
C10_Witness ==
    /\ norm.status = 429 /\ norm.upstream = RateLimitBody
    /\ norm.out.body.error.type = "rate_limited"

\* C11: a status code outside the table keeps its code and is given the
\* generic pair of its class: client_error for 400..499, upstream_error for
\* 500..599, 499 and 599 included; 400 and 500 are given their table entries.
C11_UnmappedByClass ==
    /\ (norm.status >= 400 /\ norm.status <= 499 /\ norm.status \notin DOMAIN TaxonomyTable)
          => norm.out = [status |-> norm.status,
                         body |-> [type |-> "error",
                                   error |-> [type |-> "client_error",
                                              message |-> "The request could not be processed"]]]
    /\ (norm.status >= 500 /\ norm.status <= 599 /\ norm.status \notin DOMAIN TaxonomyTable)
          => norm.out = [status |-> norm.status,
                         body |-> [type |-> "error",
                                   error |-> [type |-> "upstream_error",
                                              message |-> "The provider encountered an error"]]]
    /\ norm.status \in {400, 500}
          => /\ norm.out.status = norm.status
             /\ norm.out.body.error.type = TaxonomyTable[norm.status][1]
             /\ norm.out.body.error.message = TaxonomyTable[norm.status][2]

\* C11 witness: 499, the last code of the client class, was normalized
C11_Witness ==
    /\ norm.status = 499 /\ norm.upstream = ApiErrorBody
    /\ norm.out.status = 499 /\ norm.out.body.error.type = "client_error"

\* C12: an upstream response larger than max_response_bytes, whatever its
\* status, ends the forwarding with the ProxyUpstreamError "Response too
\* large" and neither its status nor its body is returned to the caller; a
\* response of exactly max_response_bytes is returned.
C12_OversizedResponseRejected ==
    (last.done /\ last.call # NoCall /\ last.outcome.kind = "response")
        => /\ last.outcome.size > config.max_response_bytes
                => /\ last.raised = "ProxyUpstreamError"
                   /\ last.error = "Response too large"
                   /\ last.status # last.outcome.status
                   /\ last.body # last.outcome.json
           /\ (last.outcome.size = config.max_response_bytes /\ last.outcome.ctjson)
                => (last.raised = "none" /\ last.status = last.outcome.status)

\* C13: a POST to /v1/messages whose body is not valid UTF-8 or not valid
\* JSON is answered 400 and is not forwarded.
C13_MalformedIs400 ==
    /\ \A req \in Forwarded : req.path = MessagesPath => ~parse_request_safely(req.body)
    /\ (/\ last.done /\ last.handler = "messages"
        /\ parse_request_safely(last.req.body))
          => (last.status = 400 /\ last.call = NoCall)

\* the exchanges of the handler messages that reached the upstream call
MessagesExchanges ==
    {x \in BagToSet(inflight) : x.handler = "messages"}
    \cup (IF last.handler = "messages" /\ last.call # NoCall
          THEN {Pending("messages", last.req, last.call, last.logs)} ELSE {})

\* C14 as stated: the payload of every upstream call of POST /v1/messages
\* is the JSON value parsed from the inbound body.
C14_PayloadVerbatim ==
    \A x \in MessagesExchanges : x.call.payload = x.req.body.val

\* the fields MessagesRequest declares (models.py)
DeclaredFields ==
    {"model", "messages", "max_tokens", "metadata", "stop_sequences", "stream",
     "system", "temperature", "top_k", "top_p"}

\* C14 amended: in passthrough mode the payload is the JSON value parsed
\* from the inbound body, unknown fields included; in validating mode it
\* has the declared fields of the inbound JSON that are not null, with their
\* values, except that model is default_model when one is set, and
\* stream: false.
C14_PayloadByMode ==
    \A x \in MessagesExchanges :
        LET in == x.req.body.val
            out == x.call.payload
        IN IF config.passthrough
           THEN out = in
           ELSE /\ DOMAIN out = {f \in DOMAIN in \cap DeclaredFields :
                                     f \in {"model", "messages", "max_tokens", "stream"}
                                     \/ in[f] # "null"}
                                 \cup {"stream"}
                /\ out.stream = FALSE
                /\ out.model = IF config.default_model = "" THEN in.model
                               ELSE config.default_model
                /\ \A f \in DOMAIN out \ {"stream", "model"} : out[f] = in[f]

\* C14 witness: in passthrough mode a payload with a field the gateway does
\* not know was sent to the upstream and answered
C14_Witness ==
    /\ last.done /\ last.handler = "messages" /\ config.passthrough
    /\ last.req.body.val = PayloadExtra
    /\ last.call.payload = PayloadExtra
    /\ last.status = 200

\* C15: when the credential of the active provider is missing or empty at
\* startup, constructing the configuration fails and the process accepts no
\* request.
C15_MissingCredentialFailsStartup ==
    [][(phase = "boot" /\ ApiKeyMissing(env)) => phase' = "failed"]_vars

\* an exception that is no ProxyUpstreamError was raised while the handler
\* of the completed exchange ran: in messages, by the ingress (the body does
\* not parse, or fails the schema in validating mode) or by the rendering of
\* the response; in catch_all, by reading or rendering the upstream's body
MessagesUnexpected ==
    /\ last.handler = "messages"
    /\ \/ parse_request_safely(last.req.body)
       \/ ~config.passthrough /\ ~model_validate(last.req.body.val)
       \/ /\ last.call # NoCall /\ last.outcome.kind = "response"
          /\ last.outcome.size <= config.max_response_bytes
          /\ last.outcome.json = NanBody
CatchAllUnexpected ==
    /\ last.handler = "catch_all" /\ last.call # NoCall
    /\ last.outcome.kind = "response" /\ last.outcome.ctjson
    /\ (~last.outcome.isjson \/ last.outcome.json = NanBody)
CatchAllFailed ==
    /\ last.handler = "catch_all" /\ last.call # NoCall
    /\ (last.outcome.kind # "response" \/ CatchAllUnexpected)
NoExceptionText ==
    \A l \in last.logs : l.level = "error" => l.data \cap BodyStrings(last.body) = {}

C17_CallHeaders ==
    \A call \in Calls :
        /\ call.headers["Content-Type"] = <<"application/json">>
        /\ \E k \in Credentials \ {""} : call.headers["Authorization"] = <<"Bearer", k>>
        /\ "anthropic-version" \in DOMAIN call.headers <=> config.provider = Anthropic
        /\ "anthropic-version" \in DOMAIN call.headers
              => call.headers["anthropic-version"] = <<"2023-06-01">>

\* the numeric settings are inside the bounds the configuration declares
InsideBounds ==
    /\ settings.max_request_bytes >= 1024
    /\ settings.max_response_bytes >= 1024
    /\ settings.timeout_seconds >= 1 /\ settings.timeout_seconds <= 600
    /\ settings.port >= 1 /\ settings.port <= 65535

\* C18: constructing the configuration fails when max_request_bytes or
\* max_response_bytes is below 1024, timeout_seconds is outside 1..600 or
\* port is outside 1..65535, and no configuration exists then; when all four
\* are inside their bounds (and the provider and logging mode are valid) it
\* succeeds and the configuration holds the given values.
C18_NumericBounds ==
    phase # "boot" =>
        /\ ~InsideBounds => (phase = "failed" /\ config = NoConfig)
        /\ (/\ InsideBounds
            /\ settings.provider \in DOMAIN settings.providers
            /\ settings.logging_mode \in {"off", "metadata", "debug"})
              => /\ phase = "running"
                 /\ config.max_request_bytes = settings.max_request_bytes
                 /\ config.max_response_bytes = settings.max_response_bytes
                 /\ config.timeout_seconds = settings.timeout_seconds
                 /\ config.port = settings.port

\* C18 witness: construction succeeded with every numeric setting on a bound
C18_Witness ==
    /\ phase = "running"
    /\ config.max_request_bytes = 1024 /\ config.max_response_bytes = 1024
    /\ config.timeout_seconds = 600 /\ config.port = 1

\* C19: in validating mode a POST to /v1/messages whose JSON body fails
\* MessagesRequest (messages missing or empty, or stream true) is answered
\* 422 and is not forwarded.
C19_SchemaFailureIs422 ==
    (phase = "running" /\ ~config.passthrough) =>
        /\ \A x \in MessagesExchanges : model_validate(x.req.body.val)
        /\ (/\ last.done /\ last.handler = "messages"
            /\ ~parse_request_safely(last.req.body)
            /\ ~model_validate(last.req.body.val))
              => (last.status = 422 /\ last.call = NoCall)

IsEnvelope(b) ==
    /\ DOMAIN b = {"type", "error"}
    /\ b.type = "error"
    /\ DOMAIN b.error = {"type", "message"}

\* the body of the completed exchange was made by the gateway: an exception
\* was answered, or the substitute was put in the place of a non-JSON body
GeneratedBody ==
    /\ last.done
    /\ \/ last.raised # "none"
       \/ /\ last.handler = "messages" /\ last.outcome.kind = "response"
          /\ ~last.outcome.isjson

\* C23: every response body the gateway makes itself (the rejections of the
\* ingress, the 502 of a failed upstream call, the generic 500, the
\* substitute for a non-JSON upstream body) has exactly the envelope shape.
C23_GeneratedBodiesAreEnvelopes ==
    GeneratedBody => IsEnvelope(last.body)

============================================================================
